---------------------------- MODULE Spec2Model ----------------------------
(***************************************************************************)
(* Canary rollout of an instance template over a managed instance group    *)
(* (internal/statemachine/compute.go).                                     *)
(*                                                                         *)
(* The Runner drives the loop  getInfo ; scale ; waitUntilStable ;         *)
(* checkBackendServiceHealth ; isDone  against the computeAPI interface.   *)
(* The managed instance group on the provider side is the variable fleet;  *)
(* a successful PatchMIG replaces its versions, and GetMIG returns it      *)
(* together with the status flags the provider reports at that moment.     *)
(***************************************************************************)
EXTENDS Integers, Sequences, FiniteSets

(* ------------------------------ bounds --------------------------------- *)

MaxVersions == 2

MaxTarget == 10

MaxFixed == 3

MaxZones == 3

MaxHealth == 1

MaxInstances == 2

(* -------------------------- program constants -------------------------- *)

maxTicks == 60

(* ------------------------------- data ---------------------------------- *)

\* info.template.SelfLink, the template being rolled out
TargetTemplate == "tmpl-target"

Templates == {TargetTemplate, "tmpl-a", "tmpl-b"}

CanaryName == "canary"

VersionNames == {"", CanaryName}

InstanceIDs == {"vm-a", "vm-b"}

HealthStates == {"HEALTHY", "UNHEALTHY", "DRAINING"}

SeqsUpTo(S, n) == UNION {[1..k -> S] : k \in 0..n}

Max(a, b) == IF a < b THEN b ELSE a

\* compute.InstanceGroupManagerVersion as GetMIG returns it; Fixed is
\* TargetSize.Fixed, 0 when the version has no fixed size
Version == [Name : VersionNames, InstanceTemplate : Templates, Fixed : 0..MaxFixed]

\* the provider-side managed instance group
Fleet == [Versions : SeqsUpTo(Version, MaxVersions),
          TargetSize : 0..MaxTarget,
          Zones : 0..MaxZones]

\* compute.InstanceGroupManager as GetMIG returns it
Group(f, stable, reached) ==
    [Versions |-> f.Versions, TargetSize |-> f.TargetSize, Zones |-> f.Zones,
     IsStable |-> stable, IsReached |-> reached]

\* var emptyInfo clusterInfo
emptyGroup == [Versions |-> <<>>, TargetSize |-> 0, Zones |-> 0,
               IsStable |-> FALSE, IsReached |-> FALSE]

emptyInfo == [group |-> emptyGroup, template |-> "", backend |-> ""]

BackendRef == "backend-service"

(* --------------------------- RegionOrZone ------------------------------ *)

RegionOrZone(region, zone) == [Region |-> region, Zone |-> zone]

Region(region) == RegionOrZone(region, "")

Zone(zone) == RegionOrZone("", zone)

\* the switch every location-taking adapter method starts with: the first
\* case that matches decides which provider service is called
Route(location) ==
    IF location.Region # "" THEN "regional"
    ELSE IF location.Zone # "" THEN "zonal"
    ELSE "invalid"


(* ------------------------------ scale ---------------------------------- *)

RECURSIVE ScanLastPrimaryWins(_, _, _, _)
ScanLastPrimaryWins(versions, template, i, acc) ==
    IF i > Len(versions) THEN acc
    ELSE LET version == versions[i] IN
         IF version.InstanceTemplate = template
         THEN ScanLastPrimaryWins(versions, template, i + 1,
                  IF version.Fixed > 0
                  THEN [acc EXCEPT !.oldCanarySize = version.Fixed]
                  ELSE acc)
         ELSE IF version.Name # CanaryName
         THEN ScanLastPrimaryWins(versions, template, i + 1,
                  [acc EXCEPT !.primaryTemplate = version.InstanceTemplate])
         ELSE ScanLastPrimaryWins(versions, template, i + 1, acc)

\* the name is looked at before the template
RECURSIVE ScanNameFirst(_, _, _, _)
ScanNameFirst(versions, template, i, acc) ==
    IF i > Len(versions) \/ acc.err # "none" THEN acc
    ELSE LET version == versions[i] IN
         IF version.Name # CanaryName
         THEN IF acc.primaryTemplate # ""
              THEN [acc EXCEPT !.err = "AmbiguousPrimary"]
              ELSE ScanNameFirst(versions, template, i + 1,
                       [acc EXCEPT !.primaryTemplate = version.InstanceTemplate])
         ELSE ScanNameFirst(versions, template, i + 1,
                  IF version.InstanceTemplate = template /\ version.Fixed > 0
                  THEN [acc EXCEPT !.oldCanarySize = version.Fixed]
                  ELSE acc)

\* the canary is recognised by its name, whatever its template
RECURSIVE ScanCanaryByName(_, _, _, _)
ScanCanaryByName(versions, template, i, acc) ==
    IF i > Len(versions) \/ acc.err # "none" THEN acc
    ELSE LET version == versions[i] IN
         IF version.InstanceTemplate = template \/ version.Name = CanaryName
         THEN ScanCanaryByName(versions, template, i + 1,
                  IF version.Fixed > 0
                  THEN [acc EXCEPT !.oldCanarySize = version.Fixed]
                  ELSE acc)
         ELSE IF acc.primaryTemplate # ""
         THEN [acc EXCEPT !.err = "AmbiguousPrimary"]
         ELSE ScanCanaryByName(versions, template, i + 1,
                  [acc EXCEPT !.primaryTemplate = version.InstanceTemplate])

\* the loop over info.group.Versions: acc carries primaryTemplate,
\* oldCanarySize and the error of the early return
RECURSIVE ScanVersions(_, _, _, _)
ScanVersions(versions, template, i, acc) ==
    IF i > Len(versions) \/ acc.err # "none" THEN acc
    ELSE LET version == versions[i] IN
         IF version.InstanceTemplate = template
         THEN ScanVersions(versions, template, i + 1,
                  IF version.Fixed > 0
                  THEN [acc EXCEPT !.oldCanarySize = version.Fixed]
                  ELSE acc)
         ELSE IF version.Name # CanaryName
         THEN IF acc.primaryTemplate # ""
              THEN [acc EXCEPT !.err = "AmbiguousPrimary"]
              ELSE ScanVersions(versions, template, i + 1,
                       [acc EXCEPT !.primaryTemplate = version.InstanceTemplate])
         ELSE ScanVersions(versions, template, i + 1, acc)

DoubleFromZero(oldCanarySize) == oldCanarySize * 2

GrowByOne(oldCanarySize) == oldCanarySize + 1

\* newCanarySize before clamping
GrowCanary(oldCanarySize) ==
    IF oldCanarySize = 0 THEN 1 ELSE oldCanarySize * 2

SurgeNoZones(newCanarySize, oldCanarySize, zones) == newCanarySize - oldCanarySize

\* maxSurge, raised to the number of distribution zones
MaxSurge(newCanarySize, oldCanarySize, zones) ==
    IF newCanarySize - oldCanarySize < zones
    THEN zones
    ELSE newCanarySize - oldCanarySize

\* a version of a patch; TargetSize is <<>> (nil) or <<fixed>>
PatchVersion(name, template, size) ==
    [Name |-> name, InstanceTemplate |-> template, TargetSize |-> size]

NoPatch == [Versions |-> <<>>, Type |-> "", MaxSurge |-> 0, MaxUnavailable |-> 0]

CollapsesStrict(grown, targetSize) == grown > targetSize

\* if newCanarySize >= info.group.TargetSize
Collapses(grown, targetSize) == grown >= targetSize

\* scale up to the PatchMIG call: the error of an early return, or the patch
scale(group, template) ==
    LET scan == ScanVersions(group.Versions, template, 1,
                    [err |-> "none", primaryTemplate |-> "", oldCanarySize |-> 0])
        grown == GrowCanary(scan.oldCanarySize)
        collapse == Collapses(grown, group.TargetSize)
        newCanarySize == IF collapse THEN group.TargetSize ELSE grown
        versions ==
            IF collapse
            THEN <<PatchVersion("", template, <<>>)>>
            ELSE <<PatchVersion("", scan.primaryTemplate, <<>>),
                   PatchVersion(CanaryName, template, <<newCanarySize>>)>>
    IN  IF scan.err # "none"
        THEN [err |-> scan.err, patch |-> NoPatch,
              oldCanarySize |-> 0, newCanarySize |-> 0]
        ELSE IF scan.primaryTemplate = ""
        THEN [err |-> "MissingPrimary", patch |-> NoPatch,
              oldCanarySize |-> 0, newCanarySize |-> 0]
        ELSE [err |-> "none",
              patch |-> [Versions |-> versions,
                         Type |-> "PROACTIVE",
                         MaxSurge |-> MaxSurge(newCanarySize, scan.oldCanarySize,
                                               group.Zones),
                         MaxUnavailable |-> 0],
              oldCanarySize |-> scan.oldCanarySize,
              newCanarySize |-> newCanarySize]

\* the provider applying a patch of the versions: a version without a
\* TargetSize comes back with Fixed = 0
ApplyPatch(f, patch) ==
    [f EXCEPT !.Versions =
        [i \in 1..Len(patch.Versions) |->
            [Name |-> patch.Versions[i].Name,
             InstanceTemplate |-> patch.Versions[i].InstanceTemplate,
             Fixed |-> IF patch.Versions[i].TargetSize = <<>>
                       THEN 0 ELSE patch.Versions[i].TargetSize[1]]]]

(* ------------------------- waitUntilStable ----------------------------- *)

LoopCondInclusive(t) == t <= maxTicks

\* for ticks := 0; ticks < maxTicks; ticks++
LoopCond(t) == t < maxTicks

StableOnly(group) == group.IsStable

ReachedOnly(group) == group.IsReached

RefreshedGroupOnly(old, refreshedGroup) == [emptyInfo EXCEPT !.group = refreshedGroup]

\* clusterInfo{refreshedGroup, info.template, info.backend}
Refreshed(old, refreshedGroup) == [old EXCEPT !.group = refreshedGroup]

\* refreshedGroup.Status.IsStable && refreshedGroup.Status.VersionTarget.IsReached
StableCond(group) == group.IsStable /\ group.IsReached

(* --------------------- checkBackendServiceHealth ----------------------- *)

HealthStatus == [Instance : InstanceIDs, HealthState : HealthStates]

ManagedInstance == [Instance : InstanceIDs, InstanceTemplate : {TargetTemplate, "tmpl-a"}]

\* the isUnhealthy map built from healthResponse.HealthStatus
UnhealthySet(healthResponse) ==
    {healthResponse[i].Instance :
        i \in {j \in 1..Len(healthResponse) :
                 healthResponse[j].HealthState = "UNHEALTHY"}}

AnyTemplateUnhealthy(instances, template, isUnhealthy) ==
    {i \in 1..Len(instances) : instances[i].Instance \in isUnhealthy}

\* indexes of the listing the final loop returns an error for
UnhealthyCanaries(instances, template, isUnhealthy) ==
    {i \in 1..Len(instances) :
        /\ instances[i].InstanceTemplate = template
        /\ instances[i].Instance \in isUnhealthy}

SetMin(S) == CHOOSE x \in S : \A y \in S : x <= y

\* the error of the final loop: the first unhealthy canary of the listing
CheckInstances(instances, template, isUnhealthy) ==
    LET bad == UnhealthyCanaries(instances, template, isUnhealthy) IN
    IF bad = {}
    THEN [err |-> "none", instance |-> ""]
    ELSE [err |-> "UnhealthyCanary", instance |-> instances[SetMin(bad)].Instance]

(* ------------------------------ isDone --------------------------------- *)

isDoneAnySingle(info) == Len(info.group.Versions) = 1

isDoneAnyOnTarget(info) ==
    \E i \in 1..Len(info.group.Versions) :
        info.group.Versions[i].InstanceTemplate = info.template

isDone(info) ==
    /\ Len(info.group.Versions) = 1
    /\ info.group.Versions[1].InstanceTemplate = info.template


(* ------------------------------ state ---------------------------------- *)

VARIABLES
    pc,             \* where Start is: the next call it makes
    result,         \* what Start returned, and the step that returned it
    info,           \* clusterInfo of the loop
    loopIterations, \* Start's loop counter
    ticks,          \* waitUntilStable's loop counter
    fleet,          \* the managed instance group on the provider side
    cancelled,      \* ctx is cancelled
    sleeping,       \* r.sleepFunc(tickInterval) has been entered and not left
    patches,        \* patches handed to PatchMIG by this run, oldest first
    getCalls,       \* GetMIG calls of the current waitUntilStable
    sleeps,         \* sleeps of the current waitUntilStable
    unstable,       \* polls of the current waitUntilStable that were not stable
    gated,          \* the group checkBackendServiceHealth last passed on
    healthResponse, \* HealthStatus of the current health check
    instances,      \* GetMIGInstances of the current health check
    resolves,       \* GetInstanceTemplate / FindBackendServiceWithMIG calls
    startShape,     \* what the group looked like when Start began
    apiCall         \* the googleComputeAPI method under test and what it did

vars == <<pc, result, info, loopIterations, ticks, fleet, cancelled, sleeping,
          patches, getCalls, sleeps, unstable, gated, healthResponse, instances,
          resolves, startShape, apiCall>>

Running == [err |-> "running", instance |-> "", op |-> ""]

NoCall == [op |-> "none", location |-> RegionOrZone("", ""), projectID |-> "",
           name |-> "", provider |-> <<>>, err |-> "none"]

\* StartCmd.Run builds the Runner with statemachine.Region(c.Region)
RunnerLocation == Region("region-1")

\* versions of the group other than those on the target template that are
\* not tagged canary, and whether some version is on the target template
Shape(f) ==
    [primaries |-> Cardinality({i \in 1..Len(f.Versions) :
                      /\ f.Versions[i].InstanceTemplate # TargetTemplate
                      /\ f.Versions[i].Name # CanaryName}),
     onTarget |-> Cardinality({i \in 1..Len(f.Versions) :
                      f.Versions[i].InstanceTemplate = TargetTemplate}),
     canarySize |-> IF \E i \in 1..Len(f.Versions) :
                          f.Versions[i].InstanceTemplate = TargetTemplate
                    THEN f.Versions[CHOOSE i \in 1..Len(f.Versions) :
                          f.Versions[i].InstanceTemplate = TargetTemplate].Fixed
                    ELSE 0]

Primary(template) == [Name |-> "", InstanceTemplate |-> template, Fixed |-> 0]

Canary(name, template, fixed) ==
    [Name |-> name, InstanceTemplate |-> template, Fixed |-> fixed]

\* the version lists Start is run on: a primary alone, a primary with the
\* canary an earlier run left, the target template alone, and a primary
\* with a canary-tagged version of some other template
StartVersions ==
    {<<Primary("tmpl-a")>>, <<Primary(TargetTemplate)>>}
    \cup {<<Primary("tmpl-a"), Canary(CanaryName, TargetTemplate, c)>> :
             c \in 1..MaxFixed}
    \cup {<<Primary("tmpl-a"), Canary(CanaryName, "tmpl-b", c)>> :
             c \in 1..MaxFixed}

StartFleets ==
    {f \in Fleet : f.Versions \in StartVersions}

InitRest ==
    /\ result = Running
    /\ loopIterations = 0
    /\ ticks = 0
    /\ cancelled = FALSE
    /\ sleeping = FALSE
    /\ patches = <<>>
    /\ getCalls = 0
    /\ sleeps = 0
    /\ unstable = 0
    /\ gated = emptyGroup
    /\ healthResponse = <<>>
    /\ instances = <<>>
    /\ apiCall = NoCall

Init ==
    /\ pc = "getMIG"
    /\ info = emptyInfo
    /\ fleet \in StartFleets
    /\ startShape = Shape(fleet)
    /\ resolves = [template |-> 0, backend |-> 0]
    /\ InitRest

(* --------------------------- computeAPI -------------------------------- *)

\* what a call of a computeAPI method with ctx can return: the provider
\* answers or fails, and a call made with a cancelled ctx fails
Outcomes == IF cancelled THEN {"Cancelled"} ELSE {"none", "APIError"}

\* a method that takes the Runner's location
LocatedOutcomes ==
    IF Route(RunnerLocation) = "invalid" THEN {"LocationError"} ELSE Outcomes

\* an adapter failure is tried again instead of being returned
ReturnUnlessAPIError(err, instance, op) ==
    IF err = "APIError"
    THEN UNCHANGED <<pc, result>>
    ELSE /\ pc' = "done"
         /\ result' = [err |-> err, instance |-> instance, op |-> op]

\* return err, out of the step op of Start
Return(err, instance, op) ==
    /\ pc' = "done"
    /\ result' = [err |-> err, instance |-> instance, op |-> op]

(* ------------------------------ getInfo -------------------------------- *)

GetInfoGroup ==
    /\ pc = "getMIG"
    /\ \E out \in LocatedOutcomes, stable \in BOOLEAN, reached \in BOOLEAN :
         IF out # "none"
         THEN /\ Return(out, "", "getInfo")
              /\ UNCHANGED info
         ELSE /\ info' = [info EXCEPT !.group = Group(fleet, stable, reached)]
              /\ pc' = "getTemplate"
              /\ UNCHANGED result
    /\ UNCHANGED <<loopIterations, ticks, fleet, cancelled, sleeping, patches,
                   getCalls, sleeps, unstable, gated, healthResponse, instances,
                   resolves, startShape, apiCall>>

GetInfoTemplate ==
    /\ pc = "getTemplate"
    /\ resolves' = [resolves EXCEPT !.template = @ + 1]
    /\ \E out \in Outcomes :
         IF out # "none"
         THEN /\ Return(out, "", "getInfo")
              /\ info' = emptyInfo
         ELSE /\ info' = [info EXCEPT !.template = TargetTemplate]
              /\ pc' = "findBackend"
              /\ UNCHANGED result
    /\ UNCHANGED <<loopIterations, ticks, fleet, cancelled, sleeping, patches,
                   getCalls, sleeps, unstable, gated, healthResponse, instances,
                   startShape, apiCall>>

GetInfoBackend ==
    /\ pc = "findBackend"
    /\ resolves' = [resolves EXCEPT !.backend = @ + 1]
    /\ \E out \in Outcomes \cup (IF cancelled THEN {} ELSE {"NotFound"}) :
         IF out # "none"
         THEN /\ Return(out, "", "getInfo")
              /\ info' = emptyInfo
         ELSE /\ info' = [info EXCEPT !.backend = BackendRef]
              /\ pc' = "scale"
              /\ UNCHANGED result
    /\ UNCHANGED <<loopIterations, ticks, fleet, cancelled, sleeping, patches,
                   getCalls, sleeps, unstable, gated, healthResponse, instances,
                   startShape, apiCall>>

(* ------------------------------- scale --------------------------------- *)

\* what Start does with the outcome s of scale's computation: return its
\* error, or hand the patch to PatchMIG and go on to waitUntilStable
ScaleStep(s) ==
    /\ pc = "scale"
    /\ IF s.err # "none"
         THEN /\ Return(s.err, "", "scale")
              /\ UNCHANGED <<fleet, patches>>
         ELSE \E out \in LocatedOutcomes :
                /\ patches' = Append(patches,
                       [patch |-> s.patch, applied |-> (out = "none"),
                        oldCanarySize |-> s.oldCanarySize,
                        newCanarySize |-> s.newCanarySize])
                /\ IF out # "none"
                   THEN /\ Return(out, "", "scale")
                        /\ UNCHANGED fleet
                   ELSE /\ fleet' = ApplyPatch(fleet, s.patch)
                        /\ pc' = "wait"
                        /\ UNCHANGED result
    /\ UNCHANGED <<info, loopIterations, ticks, cancelled, sleeping, getCalls,
                   sleeps, unstable, gated, healthResponse, instances, resolves,
                   startShape, apiCall>>

\* scale on a first iteration forgetting the canary it finds
ScaleResetOnFirst ==
    ScaleStep(IF loopIterations = 0
              THEN scale([info.group EXCEPT !.Versions =
                            [i \in 1..Len(info.group.Versions) |->
                               [info.group.Versions[i] EXCEPT !.Fixed = 0]]],
                         info.template)
              ELSE scale(info.group, info.template))

\* r.scale(ctx, clusterInfo): a function of clusterInfo alone
Scale == ScaleStep(scale(info.group, info.template))

(* -------------------------- waitUntilStable ---------------------------- *)

\* one pass of the loop body up to the sleep: GetMIG, then return or sleep
WaitPoll ==
    /\ pc = "wait"
    /\ ~sleeping
    /\ LoopCond(ticks)
    /\ getCalls' = getCalls + 1
    /\ \E out \in LocatedOutcomes, stable \in BOOLEAN, reached \in BOOLEAN :
         LET refreshedGroup == Group(fleet, stable, reached) IN
         IF out # "none"
         THEN /\ Return(out, "", "waitUntilStable")
              /\ info' = emptyInfo
              /\ UNCHANGED <<sleeping, unstable>>
         ELSE IF StableCond(refreshedGroup)
         THEN /\ info' = Refreshed(info, refreshedGroup)
              /\ pc' = "health"
              /\ UNCHANGED <<result, sleeping, unstable>>
         ELSE /\ sleeping' = TRUE
              /\ unstable' = unstable + 1
              /\ UNCHANGED <<pc, result, info>>
    /\ UNCHANGED <<loopIterations, ticks, fleet, cancelled, patches, sleeps,
                   gated, healthResponse, instances, resolves, startShape, apiCall>>

\* r.sleepFunc(tickInterval) returns, ticks++
WaitSleep ==
    /\ pc = "wait"
    /\ sleeping
    /\ sleeping' = FALSE
    /\ sleeps' = sleeps + 1
    /\ ticks' = ticks + 1
    /\ UNCHANGED <<pc, result, info, loopIterations, fleet, cancelled, patches,
                   getCalls, unstable, gated, healthResponse, instances, resolves,
                   startShape, apiCall>>

WaitTimeout ==
    /\ pc = "wait"
    /\ ~sleeping
    /\ ~LoopCond(ticks)
    /\ Return("StabilityTimeout", "", "waitUntilStable")
    /\ info' = emptyInfo
    /\ UNCHANGED <<loopIterations, ticks, fleet, cancelled, sleeping, patches,
                   getCalls, sleeps, unstable, gated, healthResponse, instances,
                   resolves, startShape, apiCall>>

(* --------------------- checkBackendServiceHealth ----------------------- *)

\* GetBackendServiceGroupHealth; the waiter has returned, its locals are gone
HealthFetch ==
    /\ pc = "health"
    /\ ticks' = 0
    /\ getCalls' = 0
    /\ sleeps' = 0
    /\ unstable' = 0
    /\ \E out \in Outcomes :
         IF out # "none"
         THEN /\ Return(out, "", "checkBackendServiceHealth")
              /\ UNCHANGED healthResponse
         ELSE \E h \in SeqsUpTo(HealthStatus, MaxHealth) :
                /\ healthResponse' = h
                /\ pc' = "instances"
                /\ UNCHANGED result
    /\ UNCHANGED <<info, loopIterations, fleet, cancelled, sleeping, patches,
                   gated, instances, resolves, startShape, apiCall>>

\* GetMIGInstances and the loop over the instances
HealthCheck ==
    /\ pc = "instances"
    /\ \E out \in LocatedOutcomes :
         IF out # "none"
         THEN /\ Return(out, "", "checkBackendServiceHealth")
              /\ UNCHANGED <<instances, gated>>
         ELSE \E listing \in SeqsUpTo(ManagedInstance, MaxInstances) :
                LET check == CheckInstances(listing, info.template,
                                            UnhealthySet(healthResponse)) IN
                /\ instances' = listing
                /\ IF check.err # "none"
                   THEN /\ Return(check.err, check.instance,
                                  "checkBackendServiceHealth")
                        /\ UNCHANGED gated
                   ELSE /\ gated' = info.group
                        /\ pc' = "isDone"
                        /\ UNCHANGED result
    /\ UNCHANGED <<info, loopIterations, ticks, fleet, cancelled, sleeping,
                   patches, getCalls, sleeps, unstable, healthResponse, resolves,
                   startShape, apiCall>>

(* ------------------------------- isDone -------------------------------- *)

\* if r.isDone(clusterInfo) { break } ; loopIterations++
IsDoneStep ==
    /\ pc = "isDone"
    /\ healthResponse' = <<>>
    /\ instances' = <<>>
    /\ IF isDone(info)
       THEN /\ Return("none", "", "isDone")
            /\ UNCHANGED loopIterations
       ELSE /\ pc' = "scale"
            /\ loopIterations' = loopIterations + 1
            /\ UNCHANGED result
    /\ UNCHANGED <<info, ticks, fleet, cancelled, sleeping, patches, getCalls,
                   sleeps, unstable, gated, resolves, startShape, apiCall>>

(* ------------------------------- ctx ----------------------------------- *)

\* the caller cancels ctx while Start runs; time.Sleep does not take ctx
Cancel ==
    /\ pc # "done"
    /\ ~cancelled
    /\ cancelled' = TRUE
    /\ UNCHANGED <<pc, result, info, loopIterations, ticks, fleet, sleeping,
                   patches, getCalls, sleeps, unstable, gated, healthResponse,
                   instances, resolves, startShape, apiCall>>

Next ==
    \/ GetInfoGroup
    \/ GetInfoTemplate
    \/ GetInfoBackend
    \/ Scale
    \/ WaitPoll
    \/ WaitSleep
    \/ WaitTimeout
    \/ HealthFetch
    \/ HealthCheck
    \/ IsDoneStep
    \/ Cancel

Spec == Init /\ [][Next]_vars

\* the steps of Start itself
StartStep ==
    \/ GetInfoGroup
    \/ GetInfoTemplate
    \/ GetInfoBackend
    \/ Scale
    \/ WaitPoll
    \/ WaitSleep
    \/ WaitTimeout
    \/ HealthFetch
    \/ HealthCheck
    \/ IsDoneStep

\* Start on a group spread over MaxZones zones: the number of zones enters
\* nothing but the patch's maxSurge
InitFair ==
    /\ Init
    /\ fleet.Zones = MaxZones

\* Start is one goroutine: as long as it has not returned, the call or the
\* sleep it is in returns and it takes its next step
SpecFair == InitFair /\ [][Next]_vars /\ WF_vars(StartStep)


(* ------------------- scale on any group (one call) --------------------- *)

InitScale ==
    /\ pc = "scale"
    /\ fleet \in Fleet
    /\ info = [group |-> Group(fleet, TRUE, TRUE), template |-> TargetTemplate,
               backend |-> BackendRef]
    /\ startShape = Shape(fleet)
    /\ resolves = [template |-> 1, backend |-> 1]
    /\ InitRest

SpecScale == InitScale /\ [][Scale]_vars

(* ------------------ isDone on any group (one call) --------------------- *)

InitIsDone ==
    /\ pc = "isDone"
    /\ fleet \in Fleet
    /\ info = [group |-> Group(fleet, TRUE, TRUE), template |-> TargetTemplate,
               backend |-> BackendRef]
    /\ startShape = Shape(fleet)
    /\ resolves = [template |-> 1, backend |-> 1]
    /\ result = Running
    /\ loopIterations = 0
    /\ ticks = 0
    /\ cancelled = FALSE
    /\ sleeping = FALSE
    /\ patches = <<>>
    /\ getCalls = 0
    /\ sleeps = 0
    /\ unstable = 0
    /\ gated = info.group
    /\ healthResponse = <<>>
    /\ instances = <<>>
    /\ apiCall = NoCall

SpecIsDone == InitIsDone /\ [][IsDoneStep]_vars

(* -------------- googleComputeAPI methods taking a location ------------- *)

LocationNames == {"", "us-east1", "us-east1-b"}

ProjectIDs == {"project-1", "project-2"}

MIGNames == {"mig-1", "mig-2"}

ProviderOutcomes == {"none", "NotFound", "APIError"}

\* the switch on location of GetMIG, GetMIGInstances and PatchMIG and the
\* provider call it issues; out is what the provider answers
LocatedCall(op, location, projectID, name, out) ==
    LET route == Route(location) IN
    [op |-> op, location |-> location, projectID |-> projectID, name |-> name,
     provider |-> IF route = "regional"
                  THEN <<[service |-> "regional", projectID |-> projectID,
                          location |-> location.Region, name |-> name]>>
                  ELSE IF route = "zonal"
                  THEN <<[service |-> "zonal", projectID |-> projectID,
                          location |-> location.Zone, name |-> name]>>
                  ELSE <<>>,
     err |-> IF route = "invalid" THEN "LocationError" ELSE out]

InitAdapter ==
    /\ pc = "adapter"
    /\ apiCall \in {[NoCall EXCEPT !.location = RegionOrZone(r, z),
                                   !.projectID = p, !.name = n] :
                      r \in LocationNames, z \in LocationNames,
                      p \in ProjectIDs, n \in MIGNames}
    /\ info = emptyInfo
    /\ fleet = [Versions |-> <<>>, TargetSize |-> 0, Zones |-> 0]
    /\ startShape = Shape(fleet)
    /\ resolves = [template |-> 0, backend |-> 0]
    /\ result = Running
    /\ loopIterations = 0
    /\ ticks = 0
    /\ cancelled = FALSE
    /\ sleeping = FALSE
    /\ patches = <<>>
    /\ getCalls = 0
    /\ sleeps = 0
    /\ unstable = 0
    /\ gated = emptyGroup
    /\ healthResponse = <<>>
    /\ instances = <<>>

AdapterRest ==
    UNCHANGED <<pc, result, info, loopIterations, ticks, fleet, cancelled,
                sleeping, patches, getCalls, sleeps, unstable, gated,
                healthResponse, instances, resolves, startShape>>

CallGetMIG ==
    /\ pc = "adapter"
    /\ apiCall.op = "none"
    /\ \E out \in ProviderOutcomes :
         apiCall' = LocatedCall("GetMIG", apiCall.location, apiCall.projectID,
                                apiCall.name, out)
    /\ AdapterRest

CallGetMIGInstances ==
    /\ pc = "adapter"
    /\ apiCall.op = "none"
    /\ \E out \in ProviderOutcomes :
         apiCall' = LocatedCall("GetMIGInstances", apiCall.location,
                                apiCall.projectID, apiCall.name, out)
    /\ AdapterRest

CallPatchMIG ==
    /\ pc = "adapter"
    /\ apiCall.op = "none"
    /\ \E out \in ProviderOutcomes :
         apiCall' = LocatedCall("PatchMIG", apiCall.location, apiCall.projectID,
                                apiCall.name, out)
    /\ AdapterRest

NextAdapter == CallGetMIG \/ CallGetMIGInstances \/ CallPatchMIG

SpecAdapter == InitAdapter /\ [][NextAdapter]_vars


(* ------------- googleComputeAPI.FindBackendServiceWithMIG -------------- *)

MaxServices == 2

MaxBackends == 2

\* mig.SelfLink and the link of some other group
MIGLink == "mig-1-link"

GroupLinks == {MIGLink, "mig-2-link"}

\* compute.BackendService: the Group of each of its Backends
BackendService == [Backends : SeqsUpTo(GroupLinks, MaxBackends)]

\* the Backends of the service a *compute.BackendService points to; the nil
\* pointer <<>> has none to give: dereferencing it panics
Deref(backendService) ==
    IF backendService = <<>>
    THEN [panic |-> TRUE, Backends |-> <<>>]
    ELSE [panic |-> FALSE, Backends |-> backendService[1].Backends]

\* the callback's loops over the candidates of the aggregated list, in the
\* order they are visited; backendService is the variable of the enclosing
\* function, <<>> while it is nil. The innermost loop ranges over
\* backendService.Backends, not over the candidate's.
RECURSIVE VisitCandidates(_, _, _, _)
VisitCandidates(candidates, i, selfLink, backendService) ==
    IF i > Len(candidates)
    THEN [panic |-> FALSE, backendService |-> backendService]
    ELSE LET ranged == Deref(backendService) IN
         IF ranged.panic
         THEN [panic |-> TRUE, backendService |-> backendService]
         ELSE IF \E b \in 1..Len(ranged.Backends) : ranged.Backends[b] = selfLink
         THEN [panic |-> FALSE, backendService |-> <<candidates[i]>>]
         ELSE VisitCandidates(candidates, i + 1, selfLink, backendService)

\* FindBackendServiceWithMIG: out is what the listing itself answers
FindBackendServiceWithMIG(candidates, selfLink, out) ==
    IF out # "none"
    THEN [err |-> out, backend |-> <<>>]
    ELSE LET visit == VisitCandidates(candidates, 1, selfLink, <<>>) IN
         IF visit.panic
         THEN [err |-> "panic", backend |-> <<>>]
         ELSE IF visit.backendService = <<>>
         THEN [err |-> "NotFound", backend |-> <<>>]
         ELSE [err |-> "none", backend |-> visit.backendService]

InitBackend ==
    /\ pc = "backend"
    /\ apiCall \in {[op |-> "none", candidates |-> c, selfLink |-> MIGLink,
                     backend |-> <<>>, err |-> "none"] :
                      c \in SeqsUpTo(BackendService, MaxServices)}
    /\ info = emptyInfo
    /\ fleet = [Versions |-> <<>>, TargetSize |-> 0, Zones |-> 0]
    /\ startShape = Shape(fleet)
    /\ resolves = [template |-> 0, backend |-> 0]
    /\ result = Running
    /\ loopIterations = 0
    /\ ticks = 0
    /\ cancelled = FALSE
    /\ sleeping = FALSE
    /\ patches = <<>>
    /\ getCalls = 0
    /\ sleeps = 0
    /\ unstable = 0
    /\ gated = emptyGroup
    /\ healthResponse = <<>>
    /\ instances = <<>>

CallFindBackend ==
    /\ pc = "backend"
    /\ apiCall.op = "none"
    /\ \E out \in {"none", "APIError"} :
         LET found == FindBackendServiceWithMIG(apiCall.candidates,
                                                apiCall.selfLink, out) IN
         apiCall' = [apiCall EXCEPT !.op = "FindBackendServiceWithMIG",
                                    !.backend = found.backend,
                                    !.err = found.err]
    /\ AdapterRest

SpecBackend == InitBackend /\ [][CallFindBackend]_vars

(* ======================================================================= *)
(*                               properties                                *)
(* ======================================================================= *)

RECURSIVE Pow2(_)
Pow2(n) == IF n <= 0 THEN 1 ELSE 2 * Pow2(n - 1)

\* the patch leaves a single version, on the target template
IsCollapse(p) ==
    /\ Len(p.Versions) = 1
    /\ p.Versions[1].InstanceTemplate = TargetTemplate

\* the patch leaves a primary and a canary of the given size
IsCanaryStep(p, size) ==
    /\ Len(p.Versions) = 2
    /\ p.Versions[1].InstanceTemplate # TargetTemplate
    /\ p.Versions[2].InstanceTemplate = TargetTemplate
    /\ p.Versions[2].TargetSize = <<size>>

OnePrimaryNoCanaryAtStart ==
    /\ startShape.primaries = 1
    /\ startShape.onTarget = 0
    /\ fleet.TargetSize >= 1

\* C1: in a run that began on a group of target size N >= 1 with exactly one
\* primary version and no version on the target template, the i-th patch has
\* canary size 2^(i-1) as long as that is below N; the first patch whose size
\* 2^(i-1) is >= N leaves a single version on the target template, with the
\* size clamped to N, and is the last patch of the run.
C1_DoublingUntilCollapse ==
    OnePrimaryNoCanaryAtStart =>
        \A i \in 1..Len(patches) :
            IF Pow2(i - 1) >= fleet.TargetSize
            THEN /\ IsCollapse(patches[i].patch)
                 /\ patches[i].newCanarySize = fleet.TargetSize
                 /\ i = Len(patches)
            ELSE /\ IsCanaryStep(patches[i].patch, Pow2(i - 1))
                 /\ patches[i].newCanarySize = Pow2(i - 1)

C1_Witness ==
    /\ OnePrimaryNoCanaryAtStart
    /\ fleet.TargetSize = 10
    /\ Len(patches) = 5
    /\ pc = "done"
    /\ result.err = "none"

\* the size of the last version on the target template that has a fixed
\* size, 0 if there is none
OldCanarySizeOf(g) ==
    LET sized == {i \in 1..Len(g.Versions) :
                    /\ g.Versions[i].InstanceTemplate = TargetTemplate
                    /\ g.Versions[i].Fixed > 0}
    IN  IF sized = {} THEN 0
        ELSE g.Versions[CHOOSE i \in sized : \A j \in sized : j <= i].Fixed

\* 1 or the double of the old size, clamped to the total target size
NewCanarySizeOf(g) ==
    LET old == OldCanarySizeOf(g)
        grown == IF old = 0 THEN 1 ELSE 2 * old
    IN  IF grown >= g.TargetSize THEN g.TargetSize ELSE grown

\* scale has handed a patch to PatchMIG (info.group is the group it read)
ScalePatched ==
    /\ patches # <<>>
    /\ \/ pc = "wait"
       \/ pc = "done" /\ result.op = "scale"

\* C2: every patch scale issues is proactive, has maxUnavailable 0 and has
\* maxSurge = max(newCanarySize - oldCanarySize, number of zones), with
\* newCanarySize taken after clamping to the total target size.
C2_UpdatePolicy ==
    ScalePatched =>
        LET p == patches[Len(patches)].patch IN
        /\ p.Type = "PROACTIVE"
        /\ p.MaxUnavailable = 0
        /\ p.MaxSurge = Max(NewCanarySizeOf(info.group)
                              - OldCanarySizeOf(info.group),
                            info.group.Zones)

C2_Witness ==
    /\ ScalePatched
    /\ info.group.TargetSize = 4
    /\ info.group.Zones = 3
    /\ info.group.Versions = <<Primary("tmpl-a")>>
    /\ IsCanaryStep(patches[1].patch, 1)
    /\ patches[1].patch.MaxSurge = 3
    /\ patches[1].patch.MaxUnavailable = 0

\* checkBackendServiceHealth got both answers and ran its loop
GateDecided ==
    \/ pc = "isDone"
    \/ /\ pc = "done"
       /\ result.op = "checkBackendServiceHealth"
       /\ result.err = "UnhealthyCanary"

\* instance i of the listing is on the target template and the health
\* record reports it UNHEALTHY
ReportedUnhealthyCanary(i) ==
    /\ instances[i].InstanceTemplate = TargetTemplate
    /\ \E j \in 1..Len(healthResponse) :
         /\ healthResponse[j].Instance = instances[i].Instance
         /\ healthResponse[j].HealthState = "UNHEALTHY"

\* C3: the health gate fails with the unhealthy-canary error exactly when
\* some listed instance is on the target template and is reported UNHEALTHY,
\* and the error names such an instance; unhealthy instances of other
\* templates and canaries not reported UNHEALTHY do not fail it.
C3_HealthGate ==
    GateDecided =>
        /\ result.err = "UnhealthyCanary"
             <=> \E i \in 1..Len(instances) : ReportedUnhealthyCanary(i)
        /\ result.err = "UnhealthyCanary"
             => \E i \in 1..Len(instances) :
                  /\ ReportedUnhealthyCanary(i)
                  /\ result.instance = instances[i].Instance

C3_Witness ==
    /\ pc = "done"
    /\ result.err = "UnhealthyCanary"
    /\ result.instance = "vm-a"
    /\ healthResponse = <<[Instance |-> "vm-a", HealthState |-> "UNHEALTHY"]>>
    /\ instances = <<[Instance |-> "vm-b", InstanceTemplate |-> "tmpl-a"],
                     [Instance |-> "vm-a", InstanceTemplate |-> TargetTemplate]>>

\* exactly one version, and it is on the target template
OnlyTarget(g) ==
    /\ Len(g.Versions) = 1
    /\ \A i \in 1..Len(g.Versions) : g.Versions[i].InstanceTemplate = TargetTemplate

\* C4: Start has returned success only if the group it fetched last, which
\* is the provider's current one, has exactly one version, on the target
\* template, and the health gate passed on that very group; and Start is at
\* a further scale step only if the gate passed on a group not of that form.
C4_SuccessOnlyWhenDone ==
    /\ (pc = "done" /\ result.err = "none") =>
          /\ OnlyTarget(info.group)
          /\ info.group = Group(fleet, TRUE, TRUE)
          /\ gated = info.group
    /\ (pc = "scale" /\ loopIterations > 0) =>
          /\ ~OnlyTarget(info.group)
          /\ gated = info.group

C4_Witness ==
    /\ pc = "done"
    /\ result.err = "none"
    /\ loopIterations = 2
    /\ gated = info.group

IsDoneReturned == pc # "isDone"

IsDoneReturnedTrue == pc = "done" /\ result.err = "none"

\* C5: isDone returns true exactly for a group with exactly one version
\* whose template is the target template.
C5_IsDoneIff ==
    IsDoneReturned =>
        (IsDoneReturnedTrue
           <=> /\ Len(info.group.Versions) = 1
               /\ Cardinality({i \in 1..Len(info.group.Versions) :
                     info.group.Versions[i].InstanceTemplate = TargetTemplate}) = 1)

C5_Witness ==
    /\ IsDoneReturned
    /\ ~IsDoneReturnedTrue
    /\ Len(info.group.Versions) = 1
    /\ info.group.Versions[1].InstanceTemplate = "tmpl-a"

ScaleReturned == pc # "scale"

\* versions whose name is not the canary tag
NotCanaryTagged(g) ==
    {i \in 1..Len(g.Versions) : g.Versions[i].Name # CanaryName}

\* those of them that are not on the target template
NotCanaryTaggedOffTarget(g) ==
    {i \in NotCanaryTagged(g) : g.Versions[i].InstanceTemplate # TargetTemplate}

\* C6 as stated: exactly two versions not named "canary" give the
\* ambiguous-primary error, none gives the missing-primary error.
C6_AsStated ==
    ScaleReturned =>
        /\ Cardinality(NotCanaryTagged(info.group)) = 2
             => result.err = "AmbiguousPrimary"
        /\ Cardinality(NotCanaryTagged(info.group)) = 0
             => result.err = "MissingPrimary"

\* C6: exactly two versions that are not named "canary" and are not on the
\* target template give the ambiguous-primary error; no version with a name
\* other than "canary" gives the missing-primary error.
C6_PrimaryErrors ==
    ScaleReturned =>
        /\ Cardinality(NotCanaryTaggedOffTarget(info.group)) = 2
             => result.err = "AmbiguousPrimary"
        /\ Cardinality(NotCanaryTagged(info.group)) = 0
             => result.err = "MissingPrimary"

C6_Witness ==
    /\ ScaleReturned
    /\ info.group.Versions = <<Primary("tmpl-a"), Primary("tmpl-b")>>
    /\ result.err = "AmbiguousPrimary"
    /\ patches = <<>>

\* C7: while the waiter polls, every poll so far was not stable and it
\* slept once after each of them; when it returns success after k such
\* polls, k < maxTicks, it has made k + 1 GetMIG calls and slept k times, and
\* it hands back the group of the last poll, stable with its target reached.
C7_WaiterCounts ==
    /\ pc = "wait" =>
          /\ getCalls = unstable
          /\ sleeps = IF sleeping THEN unstable - 1 ELSE unstable
    /\ pc = "health" =>
          /\ unstable < maxTicks
          /\ getCalls = unstable + 1
          /\ sleeps = unstable
          /\ info.group = Group(fleet, TRUE, TRUE)

C7_Witness ==
    /\ pc = "health"
    /\ unstable = maxTicks - 1
    /\ getCalls = maxTicks
    /\ sleeps = maxTicks - 1

\* C8: the waiter never makes more than maxTicks GetMIG calls; it fails with
\* the stability-timeout error after exactly maxTicks calls none of which was
\* stable, and Start has then returned that error.
C8_Timeout ==
    /\ getCalls <= maxTicks
    /\ result.err = "StabilityTimeout" =>
          /\ pc = "done"
          /\ result.op = "waitUntilStable"
          /\ getCalls = maxTicks
          /\ unstable = maxTicks

C8_Witness ==
    /\ pc = "done"
    /\ result.err = "StabilityTimeout"
    /\ getCalls = maxTicks
    /\ loopIterations = 1

\* the location has exactly one of region and zone
ExactlyOneSet(location) ==
    (location.Region # "") # (location.Zone # "")

\* C9: GetMIG, GetMIGInstances and PatchMIG called with a location that has
\* both or neither of region and zone fail with the location error and issue
\* no provider call.
C9_LocationValidated ==
    (apiCall.op # "none" /\ ~ExactlyOneSet(apiCall.location)) =>
        /\ apiCall.err = "LocationError"
        /\ apiCall.provider = <<>>

\* C10: once ctx is cancelled, a sleep in progress does not run on: the next
\* thing that happens is Start returning the cancellation error.
C10_CancelInterruptsSleep ==
    [][(cancelled /\ sleeping) =>
          (pc' = "done" /\ result'.err = "Cancelled")]_vars


\* errors a computeAPI call hands back
AdapterErrors == {"APIError", "Cancelled", "LocationError", "NotFound"}

\* the versions the provider holds after the patches applied so far
LastApplied ==
    LET applied == {i \in 1..Len(patches) : patches[i].applied} IN
    IF applied = {} THEN <<>>
    ELSE patches[CHOOSE i \in applied : \A j \in applied : j <= i].patch.Versions

\* C11: Start has returned exactly when a result is set, and after it has
\* returned nothing more happens; a patch PatchMIG refused is the last one
\* and Start returned that adapter error from scale; the group keeps the
\* versions of the last applied patch, whatever Start returned; and polls
\* that were not stable are seen only inside the stability wait.
C11_ErrorsEndRun ==
    /\ (result.err # "running") <=> (pc = "done")
    /\ pc = "done" => ~ENABLED Next
    /\ \A i \in 1..Len(patches) :
         ~patches[i].applied =>
            /\ i = Len(patches)
            /\ pc = "done"
            /\ result.op = "scale"
            /\ result.err \in AdapterErrors
    /\ LastApplied # <<>> =>
         /\ Len(fleet.Versions) = Len(LastApplied)
         /\ \A i \in 1..Len(LastApplied) :
              /\ fleet.Versions[i].InstanceTemplate = LastApplied[i].InstanceTemplate
              /\ fleet.Versions[i].Name = LastApplied[i].Name
              /\ fleet.Versions[i].Fixed =
                    IF LastApplied[i].TargetSize = <<>>
                    THEN 0 ELSE LastApplied[i].TargetSize[1]
    /\ unstable > 0 => pc \in {"wait", "health", "done"}
    /\ (unstable > 0 /\ pc = "done") => result.op = "waitUntilStable"

C11_Witness ==
    /\ pc = "done"
    /\ result.err = "UnhealthyCanary"
    /\ Len(patches) = 2
    /\ patches[2].applied
    /\ Len(fleet.Versions) = 2
    /\ fleet.Versions[2] = Canary(CanaryName, TargetTemplate, 2)


\* a candidate one of whose backends refers to the group
HasBackendFor(service, selfLink) ==
    \E b \in 1..Len(service.Backends) : service.Backends[b] = selfLink

FindBackendListed ==
    /\ apiCall.op = "FindBackendServiceWithMIG"
    /\ apiCall.err # "APIError"

\* C12: when the listing answers, FindBackendServiceWithMIG returns a
\* backend service with a backend for the group if one is listed, and the
\* not-found error exactly when none is.
C12_FindsBackend ==
    FindBackendListed =>
        LET matching == {i \in 1..Len(apiCall.candidates) :
                           HasBackendFor(apiCall.candidates[i], apiCall.selfLink)}
        IN  /\ matching # {} =>
                 /\ apiCall.err = "none"
                 /\ \E i \in matching : apiCall.backend = <<apiCall.candidates[i]>>
            /\ (apiCall.err = "NotFound") <=> (matching = {})


\* the run began on a primary plus a canary on the target template of
\* fixed size >= 1, as an interrupted run leaves the group
StartedOnCanary ==
    /\ startShape.primaries = 1
    /\ startShape.onTarget = 1
    /\ startShape.canarySize >= 1

\* the patch the group g calls for, from g alone: the double of its canary
\* (1 if it has none), or the target template alone once that reaches the
\* total target size
IsStepFor(p, g) ==
    LET old == OldCanarySizeOf(g)
        grown == IF old = 0 THEN 1 ELSE 2 * old
    IN  IF grown >= g.TargetSize
        THEN IsCollapse(p)
        ELSE IsCanaryStep(p, grown)

\* C13: whichever iteration it is in, and whatever was patched before, the
\* patch scale issues is the one its group calls for; so a run begun on a
\* primary plus a canary of size c issues sizes 2c, 4c, ... and collapses to
\* the target template at the first of them that is >= N, as the run that
\* had reached canary size c itself goes on to do.
C13_ResumesFromSnapshot ==
    /\ ScalePatched => IsStepFor(patches[Len(patches)].patch, info.group)
    /\ StartedOnCanary =>
         \A i \in 1..Len(patches) :
            IF startShape.canarySize * Pow2(i) >= fleet.TargetSize
            THEN IsCollapse(patches[i].patch) /\ i = Len(patches)
            ELSE IsCanaryStep(patches[i].patch, startShape.canarySize * Pow2(i))

C13_Witness ==
    /\ StartedOnCanary
    /\ startShape.canarySize = 3
    /\ fleet.TargetSize = 10
    /\ loopIterations = 0
    /\ pc = "wait"
    /\ Len(patches) = 1
    /\ IsCanaryStep(patches[1].patch, 6)


\* the provider's group carries the versions of the last applied patch
FleetHasLastPatch ==
    /\ Len(fleet.Versions) = Len(LastApplied)
    /\ \A i \in 1..Len(LastApplied) :
         /\ fleet.Versions[i].InstanceTemplate = LastApplied[i].InstanceTemplate
         /\ fleet.Versions[i].Name = LastApplied[i].Name

AllApplied == \A i \in 1..Len(patches) : patches[i].applied

\* C14: in iteration n (counted from 0) Start is in the stability wait only
\* with n + 1 patches issued, all applied; it is at the health gate only
\* with a group fetched after that patch that is stable with its target
\* reached, on which the gate has not passed yet; it is at the done-check
\* only once the gate passed on that group; and it is at a scale step only
\* with n patches issued, the gate having passed on the result of the
\* previous one.
C14_StepsInOrder ==
    /\ pc = "wait" =>
         /\ Len(patches) = loopIterations + 1
         /\ AllApplied
         /\ FleetHasLastPatch
         /\ gated # Group(fleet, TRUE, TRUE)
    /\ pc \in {"health", "instances"} =>
         /\ Len(patches) = loopIterations + 1
         /\ AllApplied
         /\ FleetHasLastPatch
         /\ info.group = Group(fleet, TRUE, TRUE)
         /\ gated # info.group
    /\ pc = "isDone" =>
         /\ Len(patches) = loopIterations + 1
         /\ AllApplied
         /\ FleetHasLastPatch
         /\ info.group = Group(fleet, TRUE, TRUE)
         /\ gated = info.group
    /\ pc = "scale" =>
         /\ Len(patches) = loopIterations
         /\ AllApplied
         /\ loopIterations > 0 =>
              /\ FleetHasLastPatch
              /\ info.group = Group(fleet, TRUE, TRUE)
              /\ gated = info.group

C14_Witness ==
    /\ pc = "scale"
    /\ loopIterations = 3
    /\ Len(patches) = 3
    /\ gated = info.group
    /\ info.group.Versions[2] = Canary(CanaryName, TargetTemplate, 4)


\* the template of the group's primary: its version that is neither on the
\* target template nor tagged canary
PrimaryTemplateOf(g) ==
    g.Versions[CHOOSE i \in NotCanaryTaggedOffTarget(g) : TRUE].InstanceTemplate

\* 1, or the double of the group's canary size
DoubledSizeOf(g) ==
    IF OldCanarySizeOf(g) = 0 THEN 1 ELSE 2 * OldCanarySizeOf(g)

\* C15: a patch of scale is either the target template alone, unnamed and
\* without a size, which it is exactly when the doubled canary size is >= the
\* total target size; or the primary with its template and without a size,
\* followed by a version named "canary" on the target template with the
\* doubled size as its fixed size, which is then >= 1 and below the total
\* target size. No size in a patch exceeds the total target size.
C15_PatchShapes ==
    ScalePatched =>
        LET p == patches[Len(patches)].patch
            g == info.group
            grown == DoubledSizeOf(g)
        IN  /\ (grown >= g.TargetSize)
                 <=> p.Versions = <<PatchVersion("", TargetTemplate, <<>>)>>
            /\ (grown < g.TargetSize) =>
                 /\ Len(p.Versions) = 2
                 /\ p.Versions[1].InstanceTemplate = PrimaryTemplateOf(g)
                 /\ p.Versions[1].TargetSize = <<>>
                 /\ p.Versions[2] = PatchVersion(CanaryName, TargetTemplate, <<grown>>)
                 /\ 1 <= grown
            /\ \A i \in 1..Len(p.Versions) :
                 p.Versions[i].TargetSize # <<>>
                    => p.Versions[i].TargetSize[1] <= g.TargetSize
            /\ patches[Len(patches)].newCanarySize <= g.TargetSize

C15_Witness ==
    /\ ScalePatched
    /\ info.group.TargetSize = 10
    /\ info.group.Versions = <<Primary("tmpl-b"), Canary(CanaryName, TargetTemplate, 2)>>
    /\ patches[1].patch.Versions =
          <<PatchVersion("", "tmpl-b", <<>>),
            PatchVersion(CanaryName, TargetTemplate, <<4>>)>>


\* the least k with 2^k >= n
RECURSIVE CeilLog2(_)
CeilLog2(n) == IF n <= 1 THEN 0 ELSE 1 + CeilLog2((n + 1) \div 2)

\* C16: Start returns in the end; no stability wait makes more than
\* maxTicks polls, and the loop is never in an iteration beyond
\* ceil(log2(N)) + 1 (loopIterations counts them from 0).
C16_Terminates ==
    /\ <>(pc = "done")
    /\ [](getCalls <= maxTicks /\ ticks <= maxTicks)
    /\ [](loopIterations + 1 <= CeilLog2(fleet.TargetSize) + 1)

C16_Witness ==
    /\ pc = "done"
    /\ result.err = "none"
    /\ fleet.TargetSize = 10
    /\ loopIterations + 1 = 5
    /\ startShape.onTarget = 0


InLoop == pc \in {"scale", "wait", "health", "instances", "isDone"}

\* C17: GetInstanceTemplate and FindBackendServiceWithMIG are never called
\* twice; all through the loop, and when Start returns success, each has
\* been called exactly once and clusterInfo holds the template and the
\* backend getInfo resolved, every refresh by the waiter included.
C17_ResolvedOnce ==
    /\ resolves.template <= 1
    /\ resolves.backend <= 1
    /\ (InLoop \/ (pc = "done" /\ result.err = "none")) =>
         /\ resolves.template = 1
         /\ resolves.backend = 1
         /\ info.template = TargetTemplate
         /\ info.backend = BackendRef

C17_Witness ==
    /\ pc = "isDone"
    /\ loopIterations = 2
    /\ resolves.template = 1
    /\ resolves.backend = 1
    /\ info.template = TargetTemplate
    /\ info.backend = BackendRef
    /\ info.group = Group(fleet, TRUE, TRUE)

\* the run began on a group whose only version is on the target template
StartedOnTargetOnly ==
    /\ startShape.primaries = 0
    /\ startShape.onTarget = 1

\* C18: Start returns success only after a patch was applied; a run begun
\* on a group whose only version is on the target template never gets past
\* its first scale step, issues no patch, and what that scale step returns
\* is the missing-primary error.
C18_NoSuccessWithoutPatch ==
    /\ (pc = "done" /\ result.err = "none") =>
         \E i \in 1..Len(patches) : patches[i].applied
    /\ StartedOnTargetOnly =>
         /\ patches = <<>>
         /\ loopIterations = 0
         /\ pc \in {"getMIG", "getTemplate", "findBackend", "scale", "done"}
         /\ (pc = "done" /\ result.op # "getInfo") =>
               /\ result.op = "scale"
               /\ result.err = "MissingPrimary"

C18_Witness ==
    /\ StartedOnTargetOnly
    /\ fleet.Versions = <<Primary(TargetTemplate)>>
    /\ pc = "done"
    /\ result.op = "scale"
    /\ result.err = "MissingPrimary"
    /\ patches = <<>>

\* versions named "canary" that are not on the target template
StaleCanaries(g) ==
    {i \in 1..Len(g.Versions) :
        /\ g.Versions[i].Name = CanaryName
        /\ g.Versions[i].InstanceTemplate # TargetTemplate}

OnTarget(g) ==
    {i \in 1..Len(g.Versions) : g.Versions[i].InstanceTemplate = TargetTemplate}

\* one primary next to a version named "canary" on another template
StaleCanaryCase ==
    /\ StaleCanaries(info.group) # {}
    /\ Cardinality(NotCanaryTaggedOffTarget(info.group)) = 1

\* C19: on a group with one primary and a version named "canary" on a
\* template other than the target, scale finds its primary and issues a
\* patch; the old canary size is that of the target-template versions
\* alone, the patch has no version named "canary" off the target template
\* and its primary is the group's primary; without a target-template
\* version the patch is the primary followed by "canary" on the target
\* with fixed size 1, or the target alone when the total size is <= 1.
C19_StaleCanaryIgnored ==
    (ScaleReturned /\ StaleCanaryCase) =>
        LET g == info.group IN
        /\ result.err \notin {"AmbiguousPrimary", "MissingPrimary"}
        /\ ScalePatched
        /\ patches[1].oldCanarySize = OldCanarySizeOf(g)
        /\ LET p == patches[1].patch IN
           /\ \A i \in 1..Len(p.Versions) :
                p.Versions[i].Name = CanaryName
                   => p.Versions[i].InstanceTemplate = TargetTemplate
           /\ Len(p.Versions) = 2
                => p.Versions[1] = PatchVersion("", PrimaryTemplateOf(g), <<>>)
           /\ OnTarget(g) = {} =>
                p.Versions =
                   IF g.TargetSize <= 1
                   THEN <<PatchVersion("", TargetTemplate, <<>>)>>
                   ELSE <<PatchVersion("", PrimaryTemplateOf(g), <<>>),
                          PatchVersion(CanaryName, TargetTemplate, <<1>>)>>

C19_Witness ==
    /\ ScaleReturned
    /\ info.group.TargetSize = 10
    /\ info.group.Versions = <<Primary("tmpl-a"), Canary(CanaryName, "tmpl-b", 3)>>
    /\ Len(patches) = 1
    /\ patches[1].oldCanarySize = 0
    /\ patches[1].patch.Versions =
          <<PatchVersion("", "tmpl-a", <<>>),
            PatchVersion(CanaryName, TargetTemplate, <<1>>)>>

=============================================================================
